---------------------------- MODULE Spec2Model ----------------------------
(***************************************************************************)
(* A model of dxf_report_generator.py: the geometry measurement of a DXF   *)
(* document, the quantity taken from a file name, the batch loop of        *)
(* process_files, the cost table of create_pdf and the Tk front end that   *)
(* launches process_files on a worker thread.                              *)
(*                                                                         *)
(* Numbers.  Python floats are modelled by exact arithmetic:               *)
(*   - coordinates and radii are integers (mm);                            *)
(*   - an angle in radians is an integer multiple of the unit pi/180, so   *)
(*     math.radians(d) is d units and math.pi is Pi = 180 units;           *)
(*   - a length is a record [r, p] that stands for r + p * (pi/180) mm;    *)
(*   - an area (m^2) and an amount of money are held in millionths, so     *)
(*     that the divisions by 1000 and 1_000_000 of the code are exact.     *)
(* Rounding of the floating-point operations is outside the model.         *)
(***************************************************************************)
EXTENDS Integers, Sequences, FiniteSets, TLC

VARIABLES
    \* extract_quantity_from_filename, run on one file name
    filename, q_pc, quantity,
    \* calculate_total_length / calculate_bounding_box_area, run on one document
    doc, m_pc, idx, total_length, angle, min_x, min_y, max_x, max_y, area,
    \* process_files and create_pdf, run on one directory listing
    directory, dxf_files, b_pc, file_i, data, images, processed_files,
    cost_per_meter, cost_per_square_meter, row_i, grand_total, table_data,
    \* the Tk front end and its worker threads
    selected_directory, generate_button, open_report_button, pdf_path,
    cost_per_meter_entry, cost_per_square_meter_entry, workers, last_dialog

qvars == <<filename, q_pc, quantity>>
mvars == <<doc, m_pc, idx, total_length, angle, min_x, min_y, max_x, max_y, area>>
bvars == <<directory, dxf_files, b_pc, file_i, data, images, processed_files,
           cost_per_meter, cost_per_square_meter, row_i, grand_total, table_data>>
gvars == <<selected_directory, generate_button, open_report_button, pdf_path,
           cost_per_meter_entry, cost_per_square_meter_entry, workers, last_dialog>>
vars == <<qvars, mvars, bvars, gvars>>

\* Bounds of the model.
MaxNameLen == 4
MaxEntities == 2
MaxFiles == 2
MaxRows == 2
MaxWorkers == 2

\* The fixed-point scale of areas and money: millionths.
Scale == 1000 * 1000

\* Python's None, and a value that is not None.
None == <<>>
Some(v) == <<v>>

-----------------------------------------------------------------------------
(* Strings are sequences of characters; a character is a one-symbol token.  *)
(* "sup2" is the character SUPERSCRIPT TWO: str.isdigit() is True for it    *)
(* but int() does not accept it.                                            *)

Chars == {"a", "_", ".", "0", "7", "sup2"}

\* The characters for which str.isdigit() is True.
IsDigitChar(c) == c \in {"0", "7", "sup2"}

\* The characters int() accepts as a decimal digit.
IsDecimalChar(c) == c \in {"0", "7"}

DigitValue(c) == IF c = "7" THEN 7 ELSE 0

\* The largest index of character c in s, 0 when there is none (str.rfind).
RFind(s, c) ==
    LET hits == {k \in 1..Len(s) : s[k] = c}
    IN  IF hits = {} THEN 0 ELSE CHOOSE k \in hits : \A j \in hits : j <= k

\* os.path.splitext(filename)[0] of a name without directory separators:
\* the name up to its last dot, unless every character before that dot is a dot.
SplitextRoot(s) ==
    LET dotIndex == RFind(s, ".")
    IN  IF dotIndex > 0 /\ \E k \in 1..(dotIndex - 1) : s[k] # "."
        THEN SubSeq(s, 1, dotIndex - 1)
        ELSE s

\* base_name.rsplit('_', 1)
RSplit1(s) ==
    LET u == RFind(s, "_")
    IN  IF u = 0 THEN <<s>>
        ELSE <<SubSeq(s, 1, u - 1), SubSeq(s, u + 1, Len(s))>>

\* str.isdigit(): non-empty, and every character is a digit character.
IsDigit(s) == Len(s) > 0 /\ \A k \in 1..Len(s) : IsDigitChar(s[k])

RECURSIVE DecimalValue(_)
DecimalValue(s) ==
    IF Len(s) = 0 THEN 0
    ELSE 10 * DecimalValue(SubSeq(s, 1, Len(s) - 1)) + DigitValue(s[Len(s)])

\* The outcome of a call: a returned value, or an exception that was raised.
Returned(v) == [raised |-> FALSE, value |-> v]
Raised == [raised |-> TRUE, value |-> 0]

\* int(s): raises ValueError unless every character is a decimal digit.
IntOf(s) ==
    IF Len(s) > 0 /\ \A k \in 1..Len(s) : IsDecimalChar(s[k])
    THEN Returned(DecimalValue(s))
    ELSE Raised

extract_quantity_from_filename(name) ==
    LET base_name == SplitextRoot(name)
        parts == RSplit1(base_name)
    IN  IF Len(parts) = 2 /\ IsDigit(parts[2])
        THEN IntOf(parts[2])
        ELSE Returned(1)

RECURSIVE StringsUpTo(_)
StringsUpTo(n) ==
    IF n = 0 THEN {<<>>}
    ELSE LET shorter == StringsUpTo(n - 1)
         IN  shorter \cup {Append(s, c) : s \in {t \in shorter : Len(t) = n - 1}, c \in Chars}

-----------------------------------------------------------------------------
(* Lengths: [r, p] stands for r + p * (pi/180).                             *)

Pi == 180
TwoPi == 2 * Pi

Num(r, p) == [r |-> r, p |-> p]
Zero == Num(0, 0)
NumAdd(a, b) == Num(a.r + b.r, a.p + b.p)
NumScale(k, a) == Num(k * a.r, k * a.p)

RaisedNum == [raised |-> TRUE, value |-> Zero]
RaisedPoints == [raised |-> TRUE, value |-> <<>>]

\* math.hypot on integer differences; the model's points keep the root exact.
Hypot(dx, dy) ==
    LET n == dx * dx + dy * dy
    IN  CHOOSE r \in 0..n : r * r <= n /\ n < (r + 1) * (r + 1)

\* math.cos and math.sin of an angle that is a multiple of a quarter turn.
Cos(a) == CASE a % TwoPi = 0 -> 1 [] a % TwoPi = Pi -> -1 [] OTHER -> 0
Sin(a) == CASE a % TwoPi = Pi \div 2 -> 1 [] a % TwoPi = Pi + Pi \div 2 -> -1 [] OTHER -> 0

\* math.radians, in units of pi/180.
Radians(deg) == (deg * Pi) \div 180

(* An entity of the modelspace, as ezdxf hands it over.  malformed: reading  *)
(* its data (entity.dxf.<attribute>, get_points(), approximate()) raises.   *)
(* points: the vertices of a polyline, or the points approximate() returns. *)
Entity(kind, start, end, points, closed, center, radius, start_angle, end_angle, malformed) ==
    [kind |-> kind, start |-> start, end |-> end, points |-> points, closed |-> closed,
     center |-> center, radius |-> radius, start_angle |-> start_angle,
     end_angle |-> end_angle, malformed |-> malformed]

RECURSIVE PathLength(_, _)
\* The sum of the distances between consecutive points, from index i on.
PathLength(points, i) ==
    IF i >= Len(points) THEN 0
    ELSE Hypot(points[i + 1][1] - points[i][1], points[i + 1][2] - points[i][2])
         + PathLength(points, i + 1)

calculate_line_length(entity) ==
    IF entity.malformed THEN RaisedNum
    ELSE Returned(Num(Hypot(entity.end[1] - entity.start[1],
                            entity.end[2] - entity.start[2]), 0))

calculate_polyline_length(entity) ==
    IF entity.malformed THEN RaisedNum
    ELSE LET points == entity.points
             open == PathLength(points, 1)
         IN  IF entity.closed
             THEN IF Len(points) = 0
                  THEN RaisedNum    \* points[-1] of an empty list: IndexError
                  ELSE Returned(Num(open + Hypot(points[1][1] - points[Len(points)][1],
                                                 points[1][2] - points[Len(points)][2]), 0))
             ELSE Returned(Num(open, 0))

calculate_circle_length(entity) ==
    IF entity.malformed THEN RaisedNum
    ELSE Returned(Num(0, 2 * Pi * entity.radius))

\* The local variable angle of calculate_arc_length when it returns.
ArcSweep(entity) ==
    LET raw == Radians(entity.end_angle) - Radians(entity.start_angle)
    IN  IF raw < 0 THEN raw + 2 * Pi ELSE raw

calculate_arc_length(entity) ==
    IF entity.malformed THEN RaisedNum
    ELSE Returned(Num(0, entity.radius * ArcSweep(entity)))

calculate_spline_length(entity) ==
    IF entity.malformed THEN RaisedNum
    ELSE Returned(Num(PathLength(entity.points, 1), 0))

\* The body of the try block of calculate_total_length, up to the addition.
EntityLength(entity) ==
    CASE entity.kind = "LINE" -> calculate_line_length(entity)
      [] entity.kind \in {"LWPOLYLINE", "POLYLINE"} -> calculate_polyline_length(entity)
      [] entity.kind = "CIRCLE" -> calculate_circle_length(entity)
      [] entity.kind = "ARC" -> calculate_arc_length(entity)
      [] entity.kind = "SPLINE" -> calculate_spline_length(entity)
      [] OTHER -> Returned(Zero)

get_entity_vertices(entity) ==
    CASE entity.kind = "LINE" ->
           IF entity.malformed THEN RaisedPoints
           ELSE Returned(<<entity.start, entity.end>>)
      [] entity.kind \in {"LWPOLYLINE", "POLYLINE"} ->
           IF entity.malformed THEN RaisedPoints ELSE Returned(entity.points)
      [] entity.kind = "CIRCLE" ->
           IF entity.malformed THEN RaisedPoints
           ELSE LET c == entity.center
                    r == entity.radius
                IN  Returned(<< <<c[1] - r, c[2]>>, <<c[1] + r, c[2]>>,
                                <<c[1], c[2] - r>>, <<c[1], c[2] + r>> >>)
      [] entity.kind = "ARC" ->
           IF entity.malformed THEN RaisedPoints
           ELSE LET c == entity.center
                    r == entity.radius
                    sa == Radians(entity.start_angle)
                    ea == Radians(entity.end_angle)
                IN  Returned(<< <<c[1] + r * Cos(sa), c[2] + r * Sin(sa)>>,
                                <<c[1] + r * Cos(ea), c[2] + r * Sin(ea)>> >>)
      [] entity.kind = "SPLINE" ->
           IF entity.malformed THEN RaisedPoints ELSE Returned(entity.points)
      [] OTHER -> Returned(<<>>)

Min2(a, b) == IF a <= b THEN a ELSE b
Max2(a, b) == IF a >= b THEN a ELSE b

\* BoxPoint with min in place of max on the line of max_x.
BoxPointMinForMax(b, pt) ==
    [min_x |-> IF b.min_x = None THEN Some(pt[1]) ELSE Some(Min2(b.min_x[1], pt[1])),
     min_y |-> IF b.min_y = None THEN Some(pt[2]) ELSE Some(Min2(b.min_y[1], pt[2])),
     max_x |-> IF b.max_x = None THEN Some(pt[1]) ELSE Some(Min2(b.max_x[1], pt[1])),
     max_y |-> IF b.max_y = None THEN Some(pt[2]) ELSE Some(Max2(b.max_y[1], pt[2]))]

\* The four running bounds after the statements of the inner loop for one point.
BoxPoint(b, pt) ==
    [min_x |-> IF b.min_x = None THEN Some(pt[1]) ELSE Some(Min2(b.min_x[1], pt[1])),
     min_y |-> IF b.min_y = None THEN Some(pt[2]) ELSE Some(Min2(b.min_y[1], pt[2])),
     max_x |-> IF b.max_x = None THEN Some(pt[1]) ELSE Some(Max2(b.max_x[1], pt[1])),
     max_y |-> IF b.max_y = None THEN Some(pt[2]) ELSE Some(Max2(b.max_y[1], pt[2]))]

RECURSIVE BoxPoints(_, _, _)
\* for x, y in vertices: ... from index i on
BoxPoints(b, vertices, i) ==
    IF i > Len(vertices) THEN b
    ELSE BoxPoints(BoxPoint(b, vertices[i]), vertices, i + 1)

NoBox == [min_x |-> None, min_y |-> None, max_x |-> None, max_y |-> None]

\* OnEntityError with the loop left at the first exception (try around the loop).
OnEntityErrorBreak(i, n) == n + 1

\* The index of the next entity after an exception: the handler ends in continue.
OnEntityError(i, n) == i + 1

\* The value calculate_bounding_box_area returns for the final bounds.
BoxArea(b) ==
    IF None \notin {b.min_x, b.min_y, b.max_x, b.max_y}
    THEN LET width == b.max_x[1] - b.min_x[1]
             height == b.max_y[1] - b.min_y[1]
         IN  (width * height * Scale) \div 1000000
    ELSE 0

RECURSIVE TotalLengthFrom(_, _, _)
TotalLengthFrom(d, i, total) ==
    IF i > Len(d) THEN total
    ELSE LET o == EntityLength(d[i])
         IN  IF o.raised THEN TotalLengthFrom(d, OnEntityError(i, Len(d)), total)
             ELSE TotalLengthFrom(d, i + 1, NumAdd(total, o.value))

calculate_total_length(d) == TotalLengthFrom(d, 1, Zero)

RECURSIVE BoxFrom(_, _, _)
BoxFrom(d, i, b) ==
    IF i > Len(d) THEN b
    ELSE LET o == get_entity_vertices(d[i])
         IN  IF o.raised THEN BoxFrom(d, OnEntityError(i, Len(d)), b)
             ELSE BoxFrom(d, i + 1, BoxPoints(b, o.value, 1))

calculate_bounding_box_area(d) == BoxArea(BoxFrom(d, 1, NoBox))

-----------------------------------------------------------------------------
(* The inputs of the measurement: documents of at most MaxEntities entities. *)

Origin == <<0, 0>>

Line(start, end, malformed) ==
    Entity("LINE", start, end, <<>>, FALSE, Origin, 0, 0, 0, malformed)
Polyline(kind, points, closed) ==
    Entity(kind, Origin, Origin, points, closed, Origin, 0, 0, 0, FALSE)
Circle(center, radius) ==
    Entity("CIRCLE", Origin, Origin, <<>>, FALSE, center, radius, 0, 0, FALSE)
Arc(center, radius, start_angle, end_angle) ==
    Entity("ARC", Origin, Origin, <<>>, FALSE, center, radius, start_angle, end_angle, FALSE)
Spline(points, malformed) ==
    Entity("SPLINE", Origin, Origin, points, FALSE, Origin, 0, 0, 0, malformed)
Text == Entity("TEXT", Origin, Origin, <<>>, FALSE, Origin, 0, 0, 0, FALSE)

Triangle == << <<0, 0>>, <<4, 0>>, <<4, 3>> >>

Entities ==
    { Line(<<0, 0>>, <<3, 4>>, FALSE), Line(<<0, 0>>, <<3, 4>>, TRUE),
      Polyline("LWPOLYLINE", <<>>, FALSE), Polyline("LWPOLYLINE", <<>>, TRUE),
      Polyline("LWPOLYLINE", << <<9, 9>> >>, FALSE),
      Polyline("LWPOLYLINE", << <<9, 9>> >>, TRUE),
      Polyline("LWPOLYLINE", Triangle, FALSE), Polyline("LWPOLYLINE", Triangle, TRUE),
      Polyline("POLYLINE", << <<-2, 0>>, <<-2, -2>> >>, FALSE),
      Circle(<<0, 0>>, 5),
      Arc(<<0, 0>>, 2, 0, 90), Arc(<<0, 0>>, 2, 90, 0), Arc(<<0, 0>>, 2, 90, 90),
      Arc(<<0, 0>>, 2, 0, 450), Arc(<<0, 0>>, 2, 450, 0),
      Spline(<< <<0, 0>>, <<0, 6>> >>, FALSE), Spline(<< <<0, 0>>, <<0, 6>> >>, TRUE),
      Text }

RECURSIVE SeqsUpTo(_, _)
\* The sequences of at most n elements of S.
SeqsUpTo(S, n) ==
    IF n = 0 THEN {<<>>}
    ELSE LET shorter == SeqsUpTo(S, n - 1)
         IN  shorter \cup {Append(s, x) : s \in {t \in shorter : Len(t) = n - 1}, x \in S}

-----------------------------------------------------------------------------
(* Every specification below runs one part of the program; the variables of *)
(* the other parts rest at these values.                                    *)

NoOutcome == [raised |-> FALSE, value |-> -1]

QIdle == filename = <<>> /\ q_pc = "idle" /\ quantity = NoOutcome

MIdle ==
    /\ doc = <<>> /\ m_pc = "idle" /\ idx = 1 /\ total_length = Zero /\ angle = None
    /\ min_x = None /\ min_y = None /\ max_x = None /\ max_y = None /\ area = 0

BIdle ==
    /\ directory = <<>> /\ dxf_files = <<>> /\ b_pc = "idle" /\ file_i = 1 /\ data = <<>> /\ images = <<>>
    /\ processed_files = 0 /\ cost_per_meter = 0 /\ cost_per_square_meter = 0
    /\ row_i = 1 /\ grand_total = Zero /\ table_data = <<>>

GIdle ==
    /\ selected_directory = "" /\ generate_button = "disabled"
    /\ open_report_button = "disabled" /\ pdf_path = None
    /\ cost_per_meter_entry = "" /\ cost_per_square_meter_entry = ""
    /\ workers = <<>> /\ last_dialog = "none"

-----------------------------------------------------------------------------
(* extract_quantity_from_filename on every file name of at most MaxNameLen  *)
(* characters.                                                              *)

QInit ==
    /\ filename \in StringsUpTo(MaxNameLen)
    /\ q_pc = "call"
    /\ quantity = NoOutcome
    /\ MIdle /\ BIdle /\ GIdle

ExtractQuantity ==
    /\ q_pc = "call"
    /\ quantity' = extract_quantity_from_filename(filename)
    /\ q_pc' = "returned"
    /\ UNCHANGED <<filename, mvars, bvars, gvars>>

QNext == ExtractQuantity

SpecQuantity == QInit /\ [][QNext]_vars

-----------------------------------------------------------------------------
(* calculate_total_length(doc) followed by calculate_bounding_box_area(doc), *)
(* one loop iteration per step, as process_files calls them.                *)

MInit ==
    /\ doc \in SeqsUpTo(Entities, MaxEntities)
    /\ m_pc = "length" /\ idx = 1 /\ total_length = Zero /\ angle = None
    /\ min_x = None /\ min_y = None /\ max_x = None /\ max_y = None /\ area = 0
    /\ QIdle /\ BIdle /\ GIdle

\* One iteration of the loop of calculate_total_length.
TotalLengthIter ==
    /\ m_pc = "length" /\ idx <= Len(doc)
    /\ LET entity == doc[idx]
           o == EntityLength(entity)
       IN  /\ total_length' = IF o.raised THEN total_length
                              ELSE NumAdd(total_length, o.value)
           /\ idx' = IF o.raised THEN OnEntityError(idx, Len(doc)) ELSE idx + 1
           /\ angle' = IF entity.kind = "ARC" /\ ~o.raised
                       THEN Some(ArcSweep(entity)) ELSE None
    /\ UNCHANGED <<doc, m_pc, min_x, min_y, max_x, max_y, area, qvars, bvars, gvars>>

\* return total_length; process_files then calls calculate_bounding_box_area.
TotalLengthReturn ==
    /\ m_pc = "length" /\ idx > Len(doc)
    /\ m_pc' = "bbox" /\ idx' = 1 /\ angle' = None
    /\ UNCHANGED <<doc, total_length, min_x, min_y, max_x, max_y, area, qvars, bvars, gvars>>

\* One iteration of the outer loop of calculate_bounding_box_area.
BoundingBoxIter ==
    /\ m_pc = "bbox" /\ idx <= Len(doc)
    /\ LET o == get_entity_vertices(doc[idx])
           b == [min_x |-> min_x, min_y |-> min_y, max_x |-> max_x, max_y |-> max_y]
           nb == IF o.raised THEN b ELSE BoxPoints(b, o.value, 1)
       IN  /\ min_x' = nb.min_x /\ min_y' = nb.min_y
           /\ max_x' = nb.max_x /\ max_y' = nb.max_y
           /\ idx' = IF o.raised THEN OnEntityError(idx, Len(doc)) ELSE idx + 1
    /\ UNCHANGED <<doc, m_pc, total_length, angle, area, qvars, bvars, gvars>>

\* The statements after the loop of calculate_bounding_box_area.
BoundingBoxReturn ==
    /\ m_pc = "bbox" /\ idx > Len(doc)
    /\ area' = BoxArea([min_x |-> min_x, min_y |-> min_y, max_x |-> max_x, max_y |-> max_y])
    /\ m_pc' = "done"
    /\ UNCHANGED <<doc, idx, total_length, angle, min_x, min_y, max_x, max_y,
                   qvars, bvars, gvars>>

MNext == TotalLengthIter \/ TotalLengthReturn \/ BoundingBoxIter \/ BoundingBoxReturn

SpecMeasure == MInit /\ [][MNext]_vars

-----------------------------------------------------------------------------
(* Properties of extract_quantity_from_filename (SpecQuantity).             *)

\* The segment after the last underscore of the stem, and whether there is one.
HasSuffix(name) == RFind(SplitextRoot(name), "_") > 0
Suffix(name) ==
    LET stem == SplitextRoot(name)
    IN  SubSeq(stem, RFind(stem, "_") + 1, Len(stem))
IsDecimalString(s) == Len(s) > 0 /\ \A k \in 1..Len(s) : s[k] \in {"0", "7"}

\* C2: the call returns the numeric value of the trailing segment of the stem
\* when that segment is non-empty and all decimal digits, and returns 1 without
\* raising in every other case.
C2_QuantityContract ==
    q_pc = "returned" =>
        /\ ~quantity.raised
        /\ quantity.value = IF HasSuffix(filename) /\ IsDecimalString(Suffix(filename))
                            THEN DecimalValue(Suffix(filename))
                            ELSE 1

\* C3: a quantity that is returned is an integer >= 1.
C3_QuantityPositive ==
    (q_pc = "returned" /\ ~quantity.raised) => quantity.value >= 1

-----------------------------------------------------------------------------
(* Properties of the measurement (SpecMeasure).                             *)

Range(f) == {f[k] : k \in DOMAIN f}
SetMin(S) == CHOOSE v \in S : \A w \in S : v <= w
SetMax(S) == CHOOSE v \in S : \A w \in S : v >= w

\* C4: the sweep calculate_arc_length uses lies in [0, 2*pi), and is 0 with
\* length 0 when the start and end angles are equal.
C4_SweepInRange ==
    (m_pc = "length" /\ angle # None) =>
        /\ angle[1] >= 0 /\ angle[1] < TwoPi
        /\ doc[idx - 1].start_angle = doc[idx - 1].end_angle =>
               (angle[1] = 0 /\ EntityLength(doc[idx - 1]).value = Zero)

IsShortPath(e) == e.kind \in {"LWPOLYLINE", "POLYLINE"} /\ Len(e.points) <= 1
Without(d, k) == SubSeq(d, 1, k - 1) \o SubSeq(d, k + 1, Len(d))

\* C5: a path with 0 or 1 vertices, open or closed, changes neither the total
\* length nor the area: the document measures the same with and without it.
C5_ShortPathContributesNothing ==
    m_pc = "done" =>
        \A k \in 1..Len(doc) :
            IsShortPath(doc[k]) =>
                /\ total_length = calculate_total_length(Without(doc, k))
                /\ area = calculate_bounding_box_area(Without(doc, k))

\* The extent points of the first n entities: what get_entity_vertices returns
\* for those it does not raise on.
PointsOfFirst(d, n) ==
    UNION {Range(get_entity_vertices(d[k]).value) :
              k \in {j \in 1..n : ~get_entity_vertices(d[j]).raised}}

BoundsOf(pts) ==
    IF pts = {} THEN NoBox
    ELSE [min_x |-> Some(SetMin({pt[1] : pt \in pts})),
          min_y |-> Some(SetMin({pt[2] : pt \in pts})),
          max_x |-> Some(SetMax({pt[1] : pt \in pts})),
          max_y |-> Some(SetMax({pt[2] : pt \in pts}))]

\* C6: the bounds are the running min/max of all extent points seen so far
\* (entities that yield no points leave them unchanged), and the area returned
\* is (max_x - min_x) * (max_y - min_y) / 1_000_000 when a point was seen and
\* 0.0 otherwise.
C6_BoundingBoxArea ==
    /\ m_pc = "bbox" =>
           [min_x |-> min_x, min_y |-> min_y, max_x |-> max_x, max_y |-> max_y]
               = BoundsOf(PointsOfFirst(doc, idx - 1))
    /\ m_pc = "done" =>
           LET pts == PointsOfFirst(doc, Len(doc))
           IN  IF pts = {} THEN area = 0
               ELSE area * 1000000 =
                        (SetMax({pt[1] : pt \in pts}) - SetMin({pt[1] : pt \in pts}))
                        * (SetMax({pt[2] : pt \in pts}) - SetMin({pt[2] : pt \in pts}))
                        * Scale

\* A measured document with a positive area and an entity that yields no point.
C6_Witness ==
    /\ m_pc = "done" /\ area > 0
    /\ \E k \in 1..Len(doc) : get_entity_vertices(doc[k]) = Returned(<<>>)

Fails(e) == EntityLength(e).raised \/ get_entity_vertices(e).raised

RECURSIVE SumLengths(_)
SumLengths(d) ==
    IF d = <<>> THEN Zero ELSE NumAdd(EntityLength(Head(d)).value, SumLengths(Tail(d)))

NotFails(e) == ~Fails(e)

-----------------------------------------------------------------------------
(* process_files and create_pdf.                                            *)

\* str.lower() on the characters of the model's file names.
LowerChar(c) ==
    CASE c = "A" -> "a" [] c = "D" -> "d" [] c = "X" -> "x" [] c = "F" -> "f" [] OTHER -> c
Lower(s) == [k \in 1..Len(s) |-> LowerChar(s[k])]

DotDxf == <<".", "d", "x", "f">>

\* f.lower().endswith('.dxf')
IsDxfName(s) ==
    Len(s) >= Len(DotDxf)
    /\ SubSeq(Lower(s), Len(s) - Len(DotDxf) + 1, Len(s)) = DotDxf

(* A file of the directory.  readable: ezdxf.readfile returns a document;   *)
(* doc: its modelspace; renders: render_dxf_to_image returns True and the   *)
(* image exists.                                                            *)
File(name, readable, d, renders) ==
    [name |-> name, readable |-> readable, doc |-> d, renders |-> renders]

IsDxfFile(f) == IsDxfName(f.name)

\* A row of data; the keys of the source are in Russian:
\* file, quantity, total line length, area.
Row(name, q, len, ar) == [file |-> name, quantity |-> q, total_length |-> len, area |-> ar]

\* The body of the loop of process_files for one file, on the lists and the
\* counter it updates.  Every exception of the try block ends in continue.
ProcessFile(st, f) ==
    IF ~f.readable THEN st
    ELSE IF Len(f.doc) = 0 THEN st
    ELSE LET len == calculate_total_length(f.doc)
             ar == calculate_bounding_box_area(f.doc)
             q == extract_quantity_from_filename(f.name)
         IN  IF q.raised THEN st
             ELSE [data |-> Append(st.data, Row(f.name, q.value, len, ar)),
                   images |-> IF f.renders
                              THEN Append(st.images, Row(f.name, q.value, len, ar))
                              ELSE st.images,
                   processed_files |-> st.processed_files + 1]

NumDiv(a, k) == Num(a.r \div k, a.p \div k)

\* cutting_cost, material_cost and total of one row of the cost table, in
\* millionths.
CuttingCost(item, cpm) ==
    NumScale(cpm * item.quantity, NumDiv(NumScale(Scale, item.total_length), 1000))
MaterialCostNoQuantity(item, cpsm) == Num(item.area * cpsm, 0)
MaterialCost(item, cpsm) == Num(item.area * cpsm * item.quantity, 0)
RowTotal(item, cpm, cpsm) == NumAdd(CuttingCost(item, cpm), MaterialCost(item, cpsm))

bdata == <<directory, dxf_files, file_i, data, images, processed_files,
           cost_per_meter, cost_per_square_meter, row_i, grand_total, table_data>>

BInitRest ==
    /\ dxf_files = <<>> /\ file_i = 1 /\ data = <<>> /\ images = <<>>
    /\ processed_files = 0 /\ row_i = 1 /\ grand_total = Zero /\ table_data = <<>>

\* dxf_files = [f for f in os.listdir(directory) if f.lower().endswith('.dxf')]
ListFiles ==
    /\ b_pc = "start"
    /\ dxf_files' = SelectSeq(directory, IsDxfFile)
    /\ data' = <<>> /\ images' = <<>> /\ processed_files' = 0 /\ file_i' = 1
    /\ b_pc' = "files"
    /\ UNCHANGED <<directory, cost_per_meter, cost_per_square_meter, row_i, grand_total,
                   table_data, qvars, mvars, gvars>>

\* One iteration of the loop over dxf_files.
FileIter ==
    /\ b_pc = "files" /\ file_i <= Len(dxf_files)
    /\ LET st == ProcessFile([data |-> data, images |-> images,
                              processed_files |-> processed_files], dxf_files[file_i])
       IN  data' = st.data /\ images' = st.images /\ processed_files' = st.processed_files
    /\ file_i' = file_i + 1
    /\ UNCHANGED <<directory, dxf_files, b_pc, cost_per_meter, cost_per_square_meter,
                   row_i, grand_total, table_data, qvars, mvars, gvars>>

\* if images: create_pdf(...) is entered, up to grand_total = 0.0
EnterCreatePdf ==
    /\ b_pc = "files" /\ file_i > Len(dxf_files) /\ images # <<>>
    /\ b_pc' = "cost" /\ row_i' = 1 /\ grand_total' = Zero /\ table_data' = <<>>
    /\ UNCHANGED <<directory, dxf_files, file_i, data, images, processed_files,
                   cost_per_meter, cost_per_square_meter, qvars, mvars, gvars>>

\* else: no image, no report
NoReport ==
    /\ b_pc = "files" /\ file_i > Len(dxf_files) /\ images = <<>>
    /\ b_pc' = "cleanup"
    /\ UNCHANGED <<directory, dxf_files, file_i, data, images, processed_files,
                   cost_per_meter, cost_per_square_meter, row_i, grand_total, table_data,
                   qvars, mvars, gvars>>

\* One iteration of the loop of the cost table of create_pdf.
CostRow ==
    /\ b_pc = "cost" /\ row_i <= Len(data)
    /\ LET total == RowTotal(data[row_i], cost_per_meter, cost_per_square_meter)
       IN  /\ grand_total' = NumAdd(grand_total, total)
           /\ table_data' = Append(table_data, total)
    /\ row_i' = row_i + 1
    /\ UNCHANGED <<directory, dxf_files, b_pc, file_i, data, images, processed_files,
                   cost_per_meter, cost_per_square_meter, qvars, mvars, gvars>>

\* The last row of the table, with grand_total; the document is built.
CostFinish ==
    /\ b_pc = "cost" /\ row_i > Len(data)
    /\ table_data' = Append(table_data, grand_total)
    /\ b_pc' = "saved"
    /\ UNCHANGED <<directory, dxf_files, file_i, data, images, processed_files,
                   cost_per_meter, cost_per_square_meter, row_i, grand_total,
                   qvars, mvars, gvars>>

\* Back in process_files after create_pdf: the report button is enabled.
ReportSaved ==
    /\ b_pc = "saved"
    /\ open_report_button' = "normal" /\ pdf_path' = Some("dxf_files.pdf")
    /\ b_pc' = "cleanup"
    /\ UNCHANGED <<bdata, qvars, mvars, selected_directory, generate_button,
                   cost_per_meter_entry, cost_per_square_meter_entry, workers,
                   last_dialog>>

\* The temporary images and their folder are removed; process_files returns.
Cleanup ==
    /\ b_pc = "cleanup"
    /\ b_pc' = "returned"
    /\ UNCHANGED <<directory, dxf_files, file_i, data, images, processed_files,
                   cost_per_meter, cost_per_square_meter, row_i, grand_total, table_data,
                   qvars, mvars, gvars>>

\* "sup2" stands for SUPERSCRIPT TWO, as above.
FileNames ==
    { <<"a", ".", "d", "x", "f">>, <<"a", "_", "7", ".", "d", "x", "f">>,
      <<"a", "_", "sup2", ".", "d", "x", "f">>, <<"A", ".", "D", "X", "F">>,
      <<"a", ".", "a">> }

Files ==
    {File(n, FALSE, <<>>, FALSE) : n \in FileNames}
    \cup {File(n, TRUE, <<>>, FALSE) : n \in FileNames}
    \cup {File(n, TRUE, <<Line(<<0, 0>>, <<3, 4>>, FALSE), Circle(<<0, 0>>, 5)>>, r) :
             n \in FileNames, r \in BOOLEAN}

DistinctNames(fs) == \A j, k \in 1..Len(fs) : fs[j].name = fs[k].name => j = k

BInit ==
    /\ directory \in {fs \in SeqsUpTo(Files, MaxFiles) : DistinctNames(fs)}
    /\ cost_per_meter \in {0, 2} /\ cost_per_square_meter = 10
    /\ b_pc = "start"
    /\ BInitRest
    /\ QIdle /\ MIdle /\ GIdle

BNext ==
    \/ ListFiles \/ FileIter \/ EnterCreatePdf \/ NoReport
    \/ CostRow \/ CostFinish \/ ReportSaved \/ Cleanup

SpecBatch == BInit /\ [][BNext]_vars

(* The cost table of create_pdf on every sequence of at most MaxRows rows    *)
(* and every pair of rates of the sets below.                               *)
Rows ==
    {Row(<<"a">>, q, len, ar) :
        q \in {1, 3}, len \in {Num(5, 0), Num(5, 1800)}, ar \in {0, 100}}

CInit ==
    /\ data \in SeqsUpTo(Rows, MaxRows)
    /\ cost_per_meter \in {-1, 0, 2} /\ cost_per_square_meter \in {0, 10}
    /\ b_pc = "cost" /\ row_i = 1 /\ grand_total = Zero /\ table_data = <<>>
    /\ directory = <<>> /\ dxf_files = <<>> /\ file_i = 1 /\ images = <<>>
    /\ processed_files = 0
    /\ QIdle /\ MIdle /\ GIdle

CNext == CostRow \/ CostFinish

SpecCost == CInit /\ [][CNext]_vars

-----------------------------------------------------------------------------
(* The Tk front end: the callbacks of main and the worker threads that      *)
(* start_processing launches.                                               *)

\* A float: a finite number, or one of the values float() makes of "inf", "nan".
Finite(v) == [kind |-> "finite", v |-> v]
Inf == [kind |-> "inf", v |-> 0]
NaN == [kind |-> "nan", v |-> 0]
RaisedFloat == [raised |-> TRUE, value |-> Finite(0)]

\* float(text) on the texts of the model; ValueError on the others.
FloatOf(text) ==
    CASE text = "2" -> Returned(Finite(2))
      [] text = "10" -> Returned(Finite(10))
      [] text = "-1" -> Returned(Finite(-1))
      [] text = "inf" -> Returned(Inf)
      [] text = "nan" -> Returned(NaN)
      [] OTHER -> RaisedFloat

MeterTexts == {"", "2", "-1", "nan"}
SquareMeterTexts == {"abc", "10", "inf"}

Directories == {"d1", "d2"}

\* What os.listdir finds in each directory.
Listing(d) ==
    IF d = "d1"
    THEN << File(<<"a", "_", "7", ".", "d", "x", "f">>, TRUE,
                 <<Line(<<0, 0>>, <<3, 4>>, FALSE)>>, TRUE) >>
    ELSE << File(<<"a", ".", "a">>, TRUE, <<Text>>, TRUE) >>

RECURSIVE ProcessFilesFrom(_, _, _)
\* The loop of process_files over dxf_files, from index i on.
ProcessFilesFrom(fs, i, st) ==
    IF i > Len(fs) THEN st ELSE ProcessFilesFrom(fs, i + 1, ProcessFile(st, fs[i]))

Worker(d, cpm, cpsm, pc) ==
    [directory |-> d, cost_per_meter |-> cpm, cost_per_square_meter |-> cpsm, pc |-> pc]

GInit ==
    /\ selected_directory = "" /\ generate_button = "disabled"
    /\ open_report_button = "disabled" /\ pdf_path = None
    /\ cost_per_meter_entry = "" /\ cost_per_square_meter_entry = "abc"
    /\ workers = <<>> /\ last_dialog = "none"
    /\ QIdle /\ MIdle /\ BIdle

\* The user types into the two Entry fields.
EditEntries ==
    /\ cost_per_meter_entry' \in MeterTexts
    /\ cost_per_square_meter_entry' \in SquareMeterTexts
    /\ UNCHANGED <<selected_directory, generate_button, open_report_button, pdf_path,
                   workers, last_dialog, qvars, mvars, bvars>>

\* select_directory: askdirectory returns a directory, or "" when cancelled.
select_directory ==
    \E d \in Directories \cup {""} :
        /\ IF d # ""
           THEN selected_directory' = d /\ generate_button' = "normal"
           ELSE UNCHANGED selected_directory /\ generate_button' = "disabled"
        /\ UNCHANGED <<open_report_button, pdf_path, cost_per_meter_entry,
                       cost_per_square_meter_entry, workers, last_dialog,
                       qvars, mvars, bvars>>

\* start_processing, from float(...) on; the guard on Len(workers) bounds the model.
start_processing ==
    LET m == FloatOf(cost_per_meter_entry)
        a == FloatOf(cost_per_square_meter_entry)
    IN  IF m.raised \/ a.raised
        THEN /\ last_dialog' = "showerror: rates"
             /\ UNCHANGED <<generate_button, workers>>
        ELSE /\ Len(workers) < MaxWorkers
             /\ generate_button' = "disabled"
             /\ workers' = Append(workers,
                                  Worker(selected_directory, m.value, a.value, "started"))
             /\ UNCHANGED last_dialog

\* generate_report: the command of generate_button, which Tk runs only while
\* the button is not disabled.
generate_report ==
    /\ generate_button = "normal"
    /\ IF selected_directory # ""
       THEN start_processing
       ELSE /\ last_dialog' = "showwarning: no directory"
            /\ UNCHANGED <<generate_button, workers>>
    /\ UNCHANGED <<selected_directory, open_report_button, pdf_path, cost_per_meter_entry,
                   cost_per_square_meter_entry, qvars, mvars, bvars>>

\* open_report: the command of open_report_button.  The report, once written,
\* is never removed, so os.path.exists(pdf_path) holds.
open_report ==
    /\ open_report_button = "normal"
    /\ last_dialog' = "browser"
    /\ UNCHANGED <<selected_directory, generate_button, open_report_button, pdf_path,
                   cost_per_meter_entry, cost_per_square_meter_entry, workers,
                   qvars, mvars, bvars>>

\* The thread runs process_files up to the end of the loop over the files.
WorkerFiles(w) ==
    /\ workers[w].pc = "started"
    /\ LET st == ProcessFilesFrom(SelectSeq(Listing(workers[w].directory), IsDxfFile), 1,
                                  [data |-> <<>>, images |-> <<>>, processed_files |-> 0])
       IN  workers' = [workers EXCEPT ![w].pc =
                          IF st.images # <<>> THEN "create_pdf" ELSE "cleanup"]
    /\ UNCHANGED <<selected_directory, generate_button, open_report_button, pdf_path,
                   cost_per_meter_entry, cost_per_square_meter_entry, last_dialog,
                   qvars, mvars, bvars>>

\* The thread runs create_pdf with its two rates and enables the report button.
WorkerCreatePdf(w) ==
    /\ workers[w].pc = "create_pdf"
    /\ workers' = [workers EXCEPT ![w].pc = "cleanup"]
    /\ open_report_button' = "normal"
    /\ pdf_path' = Some(workers[w].directory)
    /\ UNCHANGED <<selected_directory, generate_button, cost_per_meter_entry,
                   cost_per_square_meter_entry, last_dialog, qvars, mvars, bvars>>

\* The thread removes the temporary images and ends.
WorkerCleanup(w) ==
    /\ workers[w].pc = "cleanup"
    /\ workers' = [workers EXCEPT ![w].pc = "finished"]
    /\ UNCHANGED <<selected_directory, generate_button, open_report_button, pdf_path,
                   cost_per_meter_entry, cost_per_square_meter_entry, last_dialog,
                   qvars, mvars, bvars>>

GNext ==
    \/ EditEntries
    \/ select_directory
    \/ generate_report
    \/ open_report
    \/ \E w \in 1..Len(workers) : WorkerFiles(w)
    \/ \E w \in 1..Len(workers) : WorkerCreatePdf(w)
    \/ \E w \in 1..Len(workers) : WorkerCleanup(w)

SpecGui == GInit /\ [][GNext]_vars

-----------------------------------------------------------------------------
(* Properties of the cost table (SpecCost).                                 *)

\* The total of one row as the claim states it, in millionths:
\* (total_length / 1000) * cost_per_meter * quantity
\*   + area * cost_per_square_meter * quantity.
ClaimedRowTotal(item) ==
    Num(((item.total_length.r * Scale) \div 1000) * cost_per_meter * item.quantity
            + item.area * cost_per_square_meter * item.quantity,
        ((item.total_length.p * Scale) \div 1000) * cost_per_meter * item.quantity)

RECURSIVE ClaimedSum(_)
\* The sum of the row totals, taken left to right.
ClaimedSum(rows) ==
    IF rows = <<>> THEN Zero
    ELSE NumAdd(ClaimedSum(SubSeq(rows, 1, Len(rows) - 1)), ClaimedRowTotal(rows[Len(rows)]))

\* C1: the grand total of the cost table is the left-to-right sum of the row
\* totals cutting_cost + material_cost, after every row and at the end; with
\* zero rows it is 0.
C1_GrandTotal ==
    /\ b_pc = "cost" => grand_total = ClaimedSum(SubSeq(data, 1, row_i - 1))
    /\ b_pc = "saved" =>
           /\ grand_total = ClaimedSum(data)
           /\ table_data[Len(table_data)] = grand_total
           /\ data = <<>> => grand_total = Zero

\* A finished table of two rows with different totals and both kinds of cost.
C1_Witness ==
    /\ b_pc = "saved" /\ Len(data) = 2
    /\ table_data[1] # table_data[2]
    /\ grand_total.r > 0 /\ grand_total.p > 0
    /\ cost_per_meter > 0 /\ cost_per_square_meter > 0
    /\ \E k \in 1..2 : data[k].quantity > 1 /\ data[k].area > 0

-----------------------------------------------------------------------------
(* Properties of process_files (SpecBatch).                                 *)

HasRowByClaim(f) == f.readable /\ Len(f.doc) > 0

\* C9: after every iteration of the loop over the files, and when it has ended,
\* data holds exactly one row for each file handled so far that was read and
\* has at least one entity, in the order of the listing.
C9_OneRowPerMeasuredFile ==
    b_pc \in {"files", "cost", "saved", "cleanup", "returned"} =>
        LET expected == SelectSeq(SubSeq(dxf_files, 1, file_i - 1), HasRowByClaim)
        IN  /\ Len(data) = Len(expected)
            /\ \A k \in 1..Len(data) : data[k].file = expected[k].name

-----------------------------------------------------------------------------
(* Properties of the front end (SpecGui).                                   *)

ValidRate(x) == x.kind = "finite" /\ x.v >= 0

\* C8: no worker thread is launched, and so create_pdf is never reached, with a
\* rate that is negative or not finite.
C8_InvalidRatesRejected ==
    \A w \in 1..Len(workers) :
        ValidRate(workers[w].cost_per_meter) /\ ValidRate(workers[w].cost_per_square_meter)

Running(w) == workers[w].pc # "finished"

\* C10: at most one process_files worker is running at any time: no two
\* workers run on the temp_images folder and dxf_files.pdf of one directory.
C10_SingleWorker ==
    \A v, w \in 1..Len(workers) :
        (Running(v) /\ Running(w) /\ workers[v].directory = workers[w].directory) => v = w

=============================================================================
